---- MODULE Spec2Model ----
(***************************************************************************)
(* Model of the document-search client (src/src/App.tsx; the responsive    *)
(* copy src/unnamed/part_000 differs only in layout and in the text of the *)
(* transport-failure message).                                             *)
(*                                                                         *)
(* Two specifications share the variables:                                 *)
(*   Spec    the App component: its five useState cells, the event         *)
(*           handlers, and the fetch calls in flight;                      *)
(*   HLSpec  the pure function highlightText applied to bounded inputs.    *)
(*                                                                         *)
(* A JavaScript string is a sequence of one-character strings.  A nullable *)
(* value is a sequence of length at most one: <<>> is null, <<x>> is x.    *)
(***************************************************************************)
EXTENDS Naturals, Integers, Sequences, FiniteSets, TLC

VARIABLES
    variant,      \* which copy of the component runs: "App" or "part_000"
    query,        \* useState("")            the text field
    results,      \* useState<DocResult[]>([])
    loading,      \* useState(false)
    selectedDoc,  \* useState<DocResult | null>(null)
    error,        \* useState<string | null>(null)
    inflight,     \* handleSearch calls suspended at an await: {[id, query, stage]}
    nextId,       \* number of fetch calls issued so far (identity of a call)
    last,         \* history: the last handler that ran, with the state before it
    shownQuery,   \* history: the query sent by the request whose response set results
    hlText,       \* highlightText: argument text
    hlTerms,      \* highlightText: argument terms
    hlOut,        \* highlightText: the rendered children, in order
    hlpc          \* "off" | "input" | "done"

svars == <<variant, query, results, loading, selectedDoc, error, inflight, nextId, last,
          shownQuery>>
hvars == <<hlText, hlTerms, hlOut, hlpc>>
vars == <<variant, query, results, loading, selectedDoc, error, inflight, nextId, last,
          shownQuery, hlText, hlTerms, hlOut, hlpc>>

-----------------------------------------------------------------------------
(* Bounds *)

MaxRequests == 2      \* fetch calls issued in one behaviour
MaxTextLen == 4       \* length of the text given to highlightText
MaxTerms == 2         \* number of terms given to highlightText

-----------------------------------------------------------------------------
(* Strings *)

Null == <<>>
Some(x) == <<x>>

\* Characters String.prototype.trim and the class \s treat as white space.
IsSpace(c) == c \in {" ", "\t", "\n"}

RECURSIVE TrimStart(_)
TrimStart(s) ==
    IF s = <<>> THEN <<>>
    ELSE IF IsSpace(Head(s)) THEN TrimStart(Tail(s))
    ELSE s

RECURSIVE TrimEnd(_)
TrimEnd(s) ==
    IF s = <<>> THEN <<>>
    ELSE IF IsSpace(s[Len(s)]) THEN TrimEnd(SubSeq(s, 1, Len(s) - 1))
    ELSE s

\* query.trim()
Trim(s) == TrimEnd(TrimStart(s))

-----------------------------------------------------------------------------
(* The session: data *)

Variants == {"App", "part_000"}

EmptyQueryMsg == "Please enter a query."
NoMatchMsg == "No matching documents found."
TransportMsg(v) == IF v = "App" THEN "Could not connect to backend." ELSE "No document found."

\* interface DocResult
Doc(i, name, t) == [doc_id |-> i, filename |-> name, score |-> i, text |-> t]
D1 == Doc(1, "one.txt", <<"a", " ", "b">>)
D2 == Doc(2, "two.txt", <<"A", "b">>)
DocPool == {D1, D2}

\* Result lists a backend answer may carry, in the backend's order.
ResultLists == {<<>>, <<D1>>, <<D2>>, <<D1, D2>>, <<D2, D1>>}

\* Values the text field may be given (e.target.value).
QueryPool == {<<>>, <<" ">>, <<"a">>, <<"a", " ", "b">>}

\* What the two awaits of handleSearch may deliver.  "throw": the awaited
\* promise rejected (fetch: no connection; res.json(): the body was not JSON).
\* "json": the parsed body; a field that is absent from the body is Null.
BackendMsgs == {"", "index not loaded"}
Thrown == [kind |-> "throw", error |-> Null, results |-> Null]
DataPool ==
    {Thrown}
    \cup [kind : {"json"},
          error : {Null} \cup {Some(m) : m \in BackendMsgs},
          results : {Null} \cup {Some(l) : l \in ResultLists}]

\* JavaScript truthiness of data.error
Truthy(e) == e # Null /\ e[1] # ""

Snapshot == [loading |-> loading, error |-> error, results |-> results,
             inflight |-> inflight, nextId |-> nextId]

NoData == [kind |-> "none", error |-> Null, results |-> Null]
Event(op, id, data) == [op |-> op, id |-> id, data |-> data, pre |-> Snapshot]

-----------------------------------------------------------------------------
(* The session: handlers *)

\* handleSearch, up to the await.
handleSearch(op) ==
    IF Trim(query) = <<>>
    THEN /\ error' = Some(EmptyQueryMsg)
         /\ results' = <<>>
         /\ last' = Event(op, 0, NoData)
         /\ UNCHANGED <<loading, selectedDoc, inflight, nextId>>
    ELSE /\ nextId < MaxRequests
         /\ loading' = TRUE
         /\ error' = Null
         /\ results' = <<>>
         /\ selectedDoc' = Null
         /\ nextId' = nextId + 1
         /\ inflight' = inflight \cup {[id |-> nextId + 1, query |-> query, stage |-> "fetch"]}
         /\ last' = Event(op, nextId + 1, NoData)

\* The Search button: disabled while loading.
ClickSearch ==
    /\ ~loading
    /\ handleSearch("submit")
    /\ UNCHANGED <<variant, query>>

\* handleKeyDown: the text field is never disabled.
KeyDown ==
    /\ \E key \in {"Enter", "a"} :
          IF key = "Enter"
          THEN handleSearch("submit")
          ELSE /\ last' = Event("key", 0, NoData)
               /\ UNCHANGED <<results, loading, selectedDoc, error, inflight, nextId>>
    /\ UNCHANGED <<variant, query>>

\* ErrorAfter with the catch branch reusing the no-match message.
ErrorAfter_CatchSaysNoMatch(data, err) ==
    IF data.kind = "throw" THEN Some(NoMatchMsg)
    ELSE IF Truthy(data.error) THEN data.error
    ELSE IF data.results = Null THEN Some(NoMatchMsg)
    ELSE IF data.results[1] = <<>> THEN Some(NoMatchMsg)
    ELSE err

\* The state after the body of try/catch, before setLoading(false).
ErrorAfter(data, err) ==
    IF data.kind = "throw" THEN Some(TransportMsg(variant))
    ELSE IF Truthy(data.error) THEN data.error
    ELSE IF data.results = Null THEN Some(TransportMsg(variant))   \* TypeError: data.results.length
    ELSE IF data.results[1] = <<>> THEN Some(NoMatchMsg)
    ELSE err

ResultsAfter(data, res) ==
    IF data.kind = "throw" THEN res
    ELSE IF Truthy(data.error) THEN <<>>
    ELSE IF data.results = Null THEN res
    ELSE IF data.results[1] = <<>> THEN <<>>
    ELSE data.results[1]

\* The rest of handleSearch once an await has delivered data (a parsed body,
\* or the exception that takes the catch branch), through setLoading(false).
Settle(r, data) ==
    /\ inflight' = inflight \ {r}
    /\ error' = ErrorAfter(data, error)
    /\ results' = ResultsAfter(data, results)
    /\ loading' = FALSE
    /\ last' = Event("arrive", r.id, data)
    /\ shownQuery' = IF ResultsAfter(data, <<>>) # <<>> THEN Some(r.query) ELSE shownQuery

\* `await fetch(...)` of request r settles.  Resolved: the continuation calls
\* res.json() and suspends again, no setter is called.  Rejected: the catch
\* branch and setLoading(false) run.
FetchSettles ==
    /\ \E r \in inflight, ok \in BOOLEAN :
          /\ r.stage = "fetch"
          /\ IF ok
             THEN /\ inflight' = (inflight \ {r}) \cup {[r EXCEPT !.stage = "body"]}
                  /\ last' = Event("headers", r.id, NoData)
                  /\ UNCHANGED <<error, results, loading, shownQuery>>
             ELSE Settle(r, Thrown)
    /\ UNCHANGED <<variant, query, selectedDoc, nextId>>

\* `await res.json()` of request r settles: the response of r arrives.
Arrive ==
    /\ \E r \in inflight, data \in DataPool :
          /\ r.stage = "body"
          /\ Settle(r, data)
    /\ UNCHANGED <<variant, query, selectedDoc, nextId>>

\* TextField onChange
SetQuery ==
    /\ \E v \in QueryPool :
          /\ v # query
          /\ query' = v
    /\ last' = Event("edit", 0, NoData)
    /\ UNCHANGED <<variant, results, loading, selectedDoc, error, inflight, nextId>>

\* The clear button, rendered when query is non-empty.
ClearQuery ==
    /\ query # <<>>
    /\ query' = <<>>
    /\ last' = Event("clear", 0, NoData)
    /\ UNCHANGED <<variant, results, loading, selectedDoc, error, inflight, nextId>>

\* ListItemButton onClick; the list is rendered when !loading && results.length > 0.
SelectDoc ==
    /\ ~loading
    /\ Len(results) > 0
    /\ \E i \in 1..Len(results) : selectedDoc' = Some(results[i])
    /\ last' = Event("select", 0, NoData)
    /\ UNCHANGED <<variant, query, results, loading, error, inflight, nextId>>

\* Dialog onClose and its close button; the dialog is open when selectedDoc is set.
CloseDoc ==
    /\ selectedDoc # Null
    /\ selectedDoc' = Null
    /\ last' = Event("close", 0, NoData)
    /\ UNCHANGED <<variant, query, results, loading, error, inflight, nextId>>

HLOff ==
    /\ hlText = <<>>
    /\ hlTerms = <<>>
    /\ hlOut = <<>>
    /\ hlpc = "off"

Init ==
    /\ variant \in Variants
    /\ query = <<>>
    /\ results = <<>>
    /\ loading = FALSE
    /\ selectedDoc = Null
    /\ error = Null
    /\ inflight = {}
    /\ nextId = 0
    /\ last = [op |-> "init", id |-> 0, data |-> NoData,
               pre |-> [loading |-> FALSE, error |-> Null, results |-> <<>>,
                        inflight |-> {}, nextId |-> 0]]
    /\ shownQuery = Null
    /\ HLOff

Next ==
    \/ ClickSearch /\ UNCHANGED hvars /\ UNCHANGED shownQuery
    \/ KeyDown /\ UNCHANGED hvars /\ UNCHANGED shownQuery
    \/ FetchSettles /\ UNCHANGED hvars
    \/ Arrive /\ UNCHANGED hvars
    \/ SetQuery /\ UNCHANGED hvars /\ UNCHANGED shownQuery
    \/ ClearQuery /\ UNCHANGED hvars /\ UNCHANGED shownQuery
    \/ SelectDoc /\ UNCHANGED hvars /\ UNCHANGED shownQuery
    \/ CloseDoc /\ UNCHANGED hvars /\ UNCHANGED shownQuery

Spec == Init /\ [][Next]_vars

-----------------------------------------------------------------------------
(* highlightText: characters *)

\* IsWordChar with the underscore left out of the word characters.
IsWordChar_NoUnderscore(c) == c \in {"a", "A", "b", "B"}

\* The characters \b counts as word characters (no u flag): [A-Za-z0-9_],
\* restricted to the characters used here.
IsWordChar(c) == c \in {"a", "A", "b", "B", "_"}

\* String.prototype.toLowerCase / toUpperCase on one character.
ToLowerChar(c) == IF c = "A" THEN "a" ELSE IF c = "B" THEN "b" ELSE c
ToUpperChar(c) == IF c = "a" THEN "A" ELSE IF c = "b" THEN "B" ELSE c

ToLowerCase(s) == [i \in 1..Len(s) |-> ToLowerChar(s[i])]

\* Canonicalize of the i flag without the u flag: the upper-case form.
Canonicalize(c) == ToUpperChar(c)

\* The class [.*+?^${}()|[\]\\] of the escaping replace.
MetaChars == {".", "*", "+", "?", "^", "$", "{", "}", "(", ")", "|", "[", "]", "\\"}

-----------------------------------------------------------------------------
(* highlightText: building the pattern *)

\* t.replace(/[.*+?^${}()|[\]\\]/g, "\\$&")
RECURSIVE EscapeTerm(_)
EscapeTerm(t) ==
    IF t = <<>> THEN <<>>
    ELSE IF Head(t) \in MetaChars
         THEN <<"\\", Head(t)>> \o EscapeTerm(Tail(t))
         ELSE <<Head(t)>> \o EscapeTerm(Tail(t))

\* terms.map(escape).join("|")
RECURSIVE JoinEscaped(_)
JoinEscaped(terms) ==
    IF terms = <<>> THEN <<>>
    ELSE IF Len(terms) = 1 THEN EscapeTerm(terms[1])
    ELSE EscapeTerm(terms[1]) \o <<"|">> \o JoinEscaped(Tail(terms))

\* The template literal `\\b(${...})\\b`: the source text of the pattern.
PatternSource(terms) == <<"\\", "b", "(">> \o JoinEscaped(terms) \o <<")", "\\", "b">>

\* new RegExp(source, "gi") reads the source back.  The body between "\b(" and
\* ")\b" is a disjunction; a backslash makes the next character a literal, an
\* unescaped "." matches any character but a line terminator, an unescaped "|"
\* separates two alternatives, any other character is a literal.
Lit(c) == [kind |-> "lit", ch |-> c]
AnyChar == [kind |-> "any", ch |-> "."]

PatternBody(src) == SubSeq(src, 4, Len(src) - 3)

\* The alternatives of a disjunction, each a sequence of atoms; cur is the
\* alternative being read.
RECURSIVE ParseDisjunction(_, _)
ParseDisjunction(body, cur) ==
    IF body = <<>> THEN <<cur>>
    ELSE IF Head(body) = "\\" /\ Len(body) >= 2
         THEN ParseDisjunction(SubSeq(body, 3, Len(body)), Append(cur, Lit(body[2])))
    ELSE IF Head(body) = "|"
         THEN <<cur>> \o ParseDisjunction(Tail(body), <<>>)
    ELSE IF Head(body) = "."
         THEN ParseDisjunction(Tail(body), Append(cur, AnyChar))
    ELSE ParseDisjunction(Tail(body), Append(cur, Lit(Head(body))))

Compile(terms) == ParseDisjunction(PatternBody(PatternSource(terms)), <<>>)

-----------------------------------------------------------------------------
(* highlightText: matching *)

\* \b at index i (0-based, between text[i] and text[i+1]).
WordBoundary(text, i) ==
    LET a == i > 0 /\ IsWordChar(text[i])
        b == i < Len(text) /\ IsWordChar(text[i + 1])
    IN a # b

AtomMatches(atom, c) ==
    IF atom.kind = "any" THEN c \notin {"\n", "\r"}
    ELSE Canonicalize(atom.ch) = Canonicalize(c)

\* \b(alt)\b matches text at index q.
AltMatchesAt(alt, text, q) ==
    /\ q + Len(alt) <= Len(text)
    /\ WordBoundary(text, q)
    /\ \A k \in 1..Len(alt) : AtomMatches(alt[k], text[q + k])
    /\ WordBoundary(text, q + Len(alt))

\* Sticky exec at index q: the alternatives are tried in order and the first
\* that matches is taken.  The end index of the match, or -1.
RECURSIVE ExecAt(_, _, _)
ExecAt(alts, text, q) ==
    IF alts = <<>> THEN -1
    ELSE IF AltMatchesAt(Head(alts), text, q) THEN q + Len(Head(alts))
    ELSE ExecAt(Tail(alts), text, q)

Slice(text, from, to) == SubSeq(text, from + 1, to)

\* SplitLoop that leaves the captured group out of the list.
RECURSIVE SplitLoop_NoCapture(_, _, _, _)
SplitLoop_NoCapture(alts, text, p, q) ==
    IF q >= Len(text) THEN <<Slice(text, p, Len(text))>>
    ELSE LET e == ExecAt(alts, text, q) IN
         IF e = -1 \/ e = p THEN SplitLoop_NoCapture(alts, text, p, q + 1)
         ELSE <<Slice(text, p, q)>> \o SplitLoop_NoCapture(alts, text, e, e)

\* RegExp.prototype[Symbol.split], the loop: p is the end of the last match,
\* q the index being tried.  A match gives the text before it and the one
\* captured group.
RECURSIVE SplitLoop(_, _, _, _)
SplitLoop(alts, text, p, q) ==
    IF q >= Len(text) THEN <<Slice(text, p, Len(text))>>
    ELSE LET e == ExecAt(alts, text, q) IN
         IF e = -1 \/ e = p THEN SplitLoop(alts, text, p, q + 1)
         ELSE <<Slice(text, p, q), Slice(text, q, e)>> \o SplitLoop(alts, text, e, e)

\* text.split(pattern)
Split(text, alts) ==
    IF Len(text) = 0
    THEN IF ExecAt(alts, text, 0) # -1 THEN <<>> ELSE <<text>>
    ELSE SplitLoop(alts, text, 0, 0)

\* terms.some((t) => t.toLowerCase() === part.toLowerCase())
IsTermPart(terms, part) ==
    \E k \in 1..Len(terms) : ToLowerCase(terms[k]) = ToLowerCase(part)

Span(part, mark) == [part |-> part, mark |-> mark]

\* highlightText: the children rendered, in order; mark is TRUE for <mark>,
\* FALSE for <span> and for the bare text returned when there are no terms.
highlightText(text, terms) ==
    IF Len(terms) = 0 THEN <<Span(text, FALSE)>>
    ELSE LET parts == Split(text, Compile(terms))
         IN [i \in 1..Len(parts) |-> Span(parts[i], IsTermPart(terms, parts[i]))]

-----------------------------------------------------------------------------
(* The detail view *)

\* s.split(/\s+/): the pieces between maximal runs of white space; cur is the
\* piece being read.
RECURSIVE SplitSpaces(_, _)
SplitSpaces(s, cur) ==
    IF s = <<>> THEN <<cur>>
    ELSE IF IsSpace(Head(s))
         THEN <<cur>> \o SplitSpaces(TrimStart(s), <<>>)
         ELSE SplitSpaces(Tail(s), Append(cur, Head(s)))

\* .filter(Boolean): the empty strings are dropped.
RECURSIVE FilterBoolean(_)
FilterBoolean(parts) ==
    IF parts = <<>> THEN <<>>
    ELSE IF Head(parts) = <<>> THEN FilterBoolean(Tail(parts))
    ELSE <<Head(parts)>> \o FilterBoolean(Tail(parts))

\* query.split(/\s+/).filter(Boolean)
Tokenize(s) == FilterBoolean(SplitSpaces(s, <<>>))

\* The terms the dialog passes to highlightText: tokens of the text field.
DialogTerms == Tokenize(query)

\* The dialog's content: selectedDoc && highlightText(selectedDoc.text, terms).
DialogContent ==
    IF selectedDoc = Null THEN <<>>
    ELSE highlightText(selectedDoc[1].text, DialogTerms)

-----------------------------------------------------------------------------
(* highlightText applied to bounded inputs *)

TextAlphabet == {"a", "A", "b", "_", ".", " "}

\* Terms as query.split(/\s+/).filter(Boolean) gives them: non-empty, no white space.
TermPool == {<<"a">>, <<"A">>, <<"a", "b">>, <<"a", ".", "a">>, <<".">>, <<"a", ".">>}

SeqsUpTo(S, n) == UNION {[1..k -> S] : k \in 0..n}

SessionIdle ==
    /\ variant = "App"
    /\ query = <<>>
    /\ results = <<>>
    /\ loading = FALSE
    /\ selectedDoc = Null
    /\ error = Null
    /\ inflight = {}
    /\ nextId = 0
    /\ last = [op |-> "init", id |-> 0, data |-> NoData,
               pre |-> [loading |-> FALSE, error |-> Null, results |-> <<>>,
                        inflight |-> {}, nextId |-> 0]]
    /\ shownQuery = Null

HLInit ==
    /\ SessionIdle
    /\ hlText \in SeqsUpTo(TextAlphabet, MaxTextLen)
    /\ hlTerms \in SeqsUpTo(TermPool, MaxTerms)
    /\ hlOut = <<>>
    /\ hlpc = "input"

Render ==
    /\ hlpc = "input"
    /\ hlOut' = highlightText(hlText, hlTerms)
    /\ hlpc' = "done"
    /\ UNCHANGED <<hlText, hlTerms>>

HLNext == Render /\ UNCHANGED svars

HLSpec == HLInit /\ [][HLNext]_vars

-----------------------------------------------------------------------------
(* Session properties *)

Range(s) == {s[i] : i \in 1..Len(s)}

\* The primary state Loading: the spinner alone.
IsLoading(s) == s.loading /\ s.error = Null /\ s.results = <<>>

Now == [loading |-> loading, error |-> error, results |-> results]

\* The last handler was the arrival of a response whose request had been
\* superseded by a later non-empty submission.
StaleArrival == last.op = "arrive" /\ last.id < last.pre.nextId

\* The last handler was the arrival of the response of the latest submission.
LatestArrival == last.op = "arrive" /\ last.id = last.pre.nextId

\* What a response produces when applied to Loading and nothing else.
Alone(data) == [loading |-> FALSE,
                error |-> ErrorAfter(data, Null),
                results |-> ResultsAfter(data, <<>>)]

\* C1: the response of a superseded submission is discarded (it changes none
\* of loading, error, results), and once every response has arrived the state
\* is the one the latest submission's response alone produces.
C1_StaleResponseDiscarded ==
    /\ StaleArrival =>
          /\ loading = last.pre.loading
          /\ error = last.pre.error
          /\ results = last.pre.results
    /\ (LatestArrival /\ last.pre.nextId >= 2 /\ inflight = {}) => Now = Alone(last.data)

\* C2: at most one of Loading (loading), Error (error non-null), Results
\* (results non-empty) holds, in every reachable state.
C2_MutuallyExclusive ==
    /\ ~(loading /\ error # Null)
    /\ ~(loading /\ results # <<>>)
    /\ ~(error # Null /\ results # <<>>)

\* C3: selectedDoc is null or an element of the current results.
C3_SelectedInResults ==
    selectedDoc = Null \/ selectedDoc[1] \in Range(results)

\* C4: a non-empty submission puts the session in Loading, and while the
\* response of the latest submission is outstanding, no handler other than a
\* submission or the arrival of that response takes the session out of Loading.
C4_LoadingUntilLatestResponse ==
    /\ (last.op = "submit" /\ last.id # 0) => IsLoading(Now)
    /\ ( /\ IsLoading(last.pre)
         /\ \E r \in last.pre.inflight : r.id = last.pre.nextId
         /\ last.op # "submit"
         /\ ~LatestArrival )
       => IsLoading(Now)

\* C5: submitting a query whose trimmed text is empty, from any state, issues
\* no request and leaves error = the empty-query message, results empty, and
\* the session not loading.
C5_EmptySubmitGivesError ==
    (last.op = "submit" /\ last.id = 0) =>
        /\ inflight = last.pre.inflight
        /\ nextId = last.pre.nextId
        /\ error = Some(EmptyQueryMsg)
        /\ results = <<>>
        /\ ~loading

\* The last handler was the arrival of the response of the only request in
\* flight, with the session in Loading.
SoleArrival ==
    /\ last.op = "arrive"
    /\ Cardinality(last.pre.inflight) = 1
    /\ IsLoading(last.pre)

\* C6: with a single request in flight and the session in Loading, the arrival
\* of the response ends Loading in the state the response determines: a
\* non-empty list gives Results with that list in order and error null; an
\* empty list gives the no-match error; a backend error (data.error set to a
\* non-empty message) gives that message verbatim; a transport or parse
\* failure (fetch or json() throws, or the body has neither field) gives an
\* error different from the no-match message; results are empty in all three
\* error cases.
C6_ResponseDeterminesState ==
    SoleArrival =>
        /\ ~loading
        /\ LET d == last.data IN
           IF d.kind = "json" /\ Truthy(d.error)
           THEN error = d.error /\ results = <<>>
           ELSE IF d.kind = "json" /\ d.results # Null /\ d.results[1] # <<>>
           THEN results = d.results[1] /\ error = Null
           ELSE IF d.kind = "json" /\ d.results # Null
           THEN error = Some(NoMatchMsg) /\ results = <<>>
           ELSE /\ error # Null
                /\ error # Some(NoMatchMsg)
                /\ results = <<>>

\* C6 witness: a sole response carrying two documents has been applied.
C6_Witness ==
    /\ SoleArrival
    /\ last.data.kind = "json"
    /\ ~Truthy(last.data.error)
    /\ last.data.results = Some(<<D2, D1>>)
    /\ results = <<D2, D1>>

-----------------------------------------------------------------------------
(* highlightText properties *)

RECURSIVE ConcatParts(_)
ConcatParts(out) ==
    IF out = <<>> THEN <<>> ELSE Head(out).part \o ConcatParts(Tail(out))

\* Index in the text (0-based) at which span n of the output starts.
Offset(out, n) == Len(ConcatParts(SubSeq(out, 1, n - 1)))

Rendered == hlpc = "done"

\* C7: concatenating the rendered spans in order reproduces the text.
C7_Lossless ==
    Rendered => ConcatParts(hlOut) = hlText

\* C7 witness: a text with a metacharacter, cut at both ends and in the
\* middle by three adjacent matches.
C7_Witness ==
    /\ Rendered
    /\ hlText = <<"a", ".", "A">>
    /\ hlTerms = <<<<".">>, <<"a">>>>
    /\ Len(hlOut) = 7
    /\ hlOut[4] = Span(<<".">>, TRUE)
    /\ hlOut[6] = Span(<<"A">>, TRUE)

\* C8: for non-empty text and terms, no rendered span is the empty string.
C8_NoEmptySpan ==
    (Rendered /\ hlText # <<>> /\ hlTerms # <<>>) =>
        \A n \in 1..Len(hlOut) : hlOut[n].part # <<>>

\* The word characters of the claims: ASCII letters, digits and underscore.
WordClass == {"a", "A", "b", "B", "_"}
AlnumClass == {"a", "A", "b", "B"}

\* A word boundary at index i of text, in the claims' terms.
BoundaryAt(text, i) ==
    LET before == i > 0 /\ text[i] \in WordClass
        after == i < Len(text) /\ text[i + 1] \in WordClass
    IN before # after

\* A term, taken literally and ignoring case, occurs in text at index q
\* between two word boundaries.
TermOccursAt(t, text, q) ==
    /\ q + Len(t) <= Len(text)
    /\ ToLowerCase(Slice(text, q, q + Len(t))) = ToLowerCase(t)
    /\ BoundaryAt(text, q)
    /\ BoundaryAt(text, q + Len(t))

\* No term occurs, entirely inside an unmatched span, before the match that
\* follows it: the scan takes the earliest occurrence.
EarliestStart ==
    \A n \in 1..Len(hlOut) :
        ~hlOut[n].mark =>
            \A q \in Offset(hlOut, n)..(Offset(hlOut, n) + Len(hlOut[n].part) - 1) :
                \A k \in 1..Len(hlTerms) :
                    TermOccursAt(hlTerms[k], hlText, q) =>
                        q + Len(hlTerms[k]) > Offset(hlOut, n) + Len(hlOut[n].part)

\* Where a matched span starts, no term has a longer occurrence.
LongestAtStart ==
    \A n \in 1..Len(hlOut) :
        hlOut[n].mark =>
            \A k \in 1..Len(hlTerms) :
                TermOccursAt(hlTerms[k], hlText, Offset(hlOut, n)) =>
                    Len(hlTerms[k]) <= Len(hlOut[n].part)

\* C9 (first half, which the code satisfies): among candidate matches the
\* earlier-starting one wins.
C9_EarliestStart ==
    Rendered => EarliestStart

\* C9: the earlier-starting occurrence wins, and where two terms both occur
\* at the position a matched span starts, the span is the longer occurrence,
\* whatever the order of the terms in the list.
C9_TieBreak ==
    Rendered => (EarliestStart /\ LongestAtStart)

\* Maximal runs of characters of class K in text, as <<first, last>> (1-based).
MaximalRuns(text, K) ==
    {<<i, j>> \in (1..Len(text)) \X (1..Len(text)) :
        /\ i <= j
        /\ \A k \in i..j : text[k] \in K
        /\ (i = 1 \/ text[i - 1] \notin K)
        /\ (j = Len(text) \/ text[j + 1] \notin K)}

\* The characters i..j of the text are rendered as one <mark> element.
Tagged(i, j) ==
    \E n \in 1..Len(hlOut) :
        /\ hlOut[n].mark
        /\ Offset(hlOut, n) = i - 1
        /\ Len(hlOut[n].part) = j - i + 1

EqualsATerm(s) == \E k \in 1..Len(hlTerms) : ToLowerCase(hlTerms[k]) = ToLowerCase(s)

AlnumTerms == \A k \in 1..Len(hlTerms) : \A m \in 1..Len(hlTerms[k]) : hlTerms[k][m] \in AlnumClass

\* C10 as stated: for alphanumeric terms, a maximal alphanumeric run of the
\* text is tagged matched if and only if it equals a term ignoring case.
C10_AlnumRunTaggedIffTerm ==
    (Rendered /\ AlnumTerms) =>
        \A r \in MaximalRuns(hlText, AlnumClass) :
            Tagged(r[1], r[2]) <=> EqualsATerm(SubSeq(hlText, r[1], r[2]))

\* C10 amended: for alphanumeric terms, a maximal run of word characters
\* (letters, digits, underscore) is tagged matched if and only if it equals a
\* term ignoring case, and nothing else is tagged: an occurrence inside a
\* longer run of word characters is never tagged.
C10_WordRunTaggedIffTerm ==
    (Rendered /\ AlnumTerms) =>
        /\ \A r \in MaximalRuns(hlText, WordClass) :
              Tagged(r[1], r[2]) <=> EqualsATerm(SubSeq(hlText, r[1], r[2]))
        /\ \A n \in 1..Len(hlOut) :
              hlOut[n].mark =>
                  <<Offset(hlOut, n) + 1, Offset(hlOut, n) + Len(hlOut[n].part)>>
                      \in MaximalRuns(hlText, WordClass)

\* C10 witness: the term "a" against "ab A": the "a" inside "ab" is not
\* tagged, the whole word "A" is.
C10_Witness ==
    /\ Rendered
    /\ hlTerms = <<<<"a">>>>
    /\ hlText = <<"a", "b", " ", "A">>
    /\ hlOut = <<Span(<<"a", "b", " ">>, FALSE), Span(<<"A">>, TRUE), Span(<<>>, FALSE)>>

-----------------------------------------------------------------------------
(* Detail view properties *)

\* A document of the current results is open in the detail view.
DocOpen ==
    /\ selectedDoc # Null
    /\ selectedDoc[1] \in Range(results)
    /\ shownQuery # Null

\* C11: whenever a document is open in the detail view, the terms it is
\* highlighted with are the white-space tokens of the query that was
\* submitted to produce the current results, whatever the text field holds
\* since then.
C11_TermsOfSubmittedQuery ==
    DocOpen => DialogTerms = Tokenize(shownQuery[1])

====
